---------------------------- MODULE Spec2Model ----------------------------
(***************************************************************************)
(* Track.write_trk of pytrack/track.py: the writer of the binary TRK file  *)
(* format, as a state machine over a small file system.                    *)
(*                                                                         *)
(* One Track object (self) is built by the caller and written, any number  *)
(* of times, to the destinations of Dests.  A call runs the statements of  *)
(* write_trk one at a time: the validation, open(filename, 'wb'), the      *)
(* write of the header, the write of the node count, one write per node    *)
(* and the exit of the with block.  The environment may refuse the open    *)
(* and may fail any write after none or some of its bytes reached the      *)
(* file; a file never grows beyond MaxFileSize bytes (the volume is full). *)
(* Bytes are the integers 0..255, a file's content is a sequence of bytes, *)
(* a name is a sequence of Unicode code points, a coordinate an integer.   *)
(***************************************************************************)
EXTENDS Integers, Sequences, FiniteSets

(***************************** bounds ***************************************)
\* The longest node list enumerated in full (every list over Points).
MaxNodes == 2
\* The longest name, in characters.
MaxNameLen == 130
\* A failing write leaves at most this many bytes of its data behind.
MaxPartial == 1
\* No file grows beyond this many bytes.
MaxFileSize == 160

(***************************** program constants ***************************)
MAX_NODES == 65535
HeaderSize == 128
NameSize == 64

(***************************** helpers **************************************)
Min(a, b) == IF a < b THEN a ELSE b

RECURSIVE Pow2(_)
Pow2(n) == IF n = 0 THEN 1 ELSE 2 * Pow2(n - 1)

RECURSIVE Pow256(_)
Pow256(n) == IF n = 0 THEN 1 ELSE 256 * Pow256(n - 1)

Take(s, n) == SubSeq(s, 1, Min(n, Len(s)))

Zeros(n) == [k \in 1..n |-> 0]

RECURSIVE Concat(_)
\* The sequences of ss joined in order (by halves: a short recursion).
Concat(ss) ==
    IF Len(ss) = 0 THEN << >>
    ELSE IF Len(ss) = 1 THEN ss[1]
    ELSE LET m == Len(ss) \div 2
         IN  Concat(SubSeq(ss, 1, m)) \o Concat(SubSeq(ss, m + 1, Len(ss)))

\* str.encode('utf-8') of one code point (no surrogates in the names used).
Utf8Char(cp) ==
    IF cp < 128 THEN << cp >>
    ELSE IF cp < 2048 THEN << 192 + (cp \div 64), 128 + (cp % 64) >>
    ELSE IF cp < 65536
         THEN << 224 + (cp \div 4096), 128 + ((cp \div 64) % 64), 128 + (cp % 64) >>
    ELSE << 240 + (cp \div 262144), 128 + ((cp \div 4096) % 64),
            128 + ((cp \div 64) % 64), 128 + (cp % 64) >>

\* str.encode('utf-8'): the encodings of the code points, in order.
EncodeUtf8(name) == Concat([k \in 1..Len(name) |-> Utf8Char(name[k])])

\* bytes[:n]
SliceTo(b, n) == Take(b, n)

\* buf[lo:hi] = val on a bytearray (0-based, hi exclusive, lo <= hi): the
\* slice, clipped to the buffer, is replaced by val, whatever val's length.
SliceAssign(buf, lo, hi, val) ==
    LET a == Min(lo, Len(buf))
        b == Min(hi, Len(buf))
    IN  SubSeq(buf, 1, a) \o val \o SubSeq(buf, b + 1, Len(buf))

\* int.to_bytes(length, byteorder='little', signed=False) of n >= 0;
\* Python raises OverflowError when n does not fit.
ToBytesFits(n, length) == n < Pow256(length)
ToBytesLE(n, length) == [k \in 1..length |-> (n \div Pow256(k - 1)) % 256]

RECURSIVE FloorLog2(_)
FloorLog2(a) == IF a < 2 THEN 0 ELSE 1 + FloorLog2(a \div 2)

\* The 24-bit significand (hidden bit included) and the exponent of the
\* float32 nearest to the integer a > 0, ties to even.
RoundToFloat(a) ==
    LET e == FloorLog2(a)
    IN  IF e <= 23
        THEN [sig |-> a * Pow2(23 - e), exp |-> e]
        ELSE LET sh == e - 23
                 q == a \div Pow2(sh)
                 r == a % Pow2(sh)
                 half == Pow2(sh - 1)
                 up == r > half \/ (r = half /\ q % 2 = 1)
                 q2 == IF up THEN q + 1 ELSE q
             IN  IF q2 = Pow2(24)
                 THEN [sig |-> Pow2(23), exp |-> e + 1]
                 ELSE [sig |-> q2, exp |-> e]

\* struct.pack('<f', v) of an integer v: the IEEE-754 binary32 encoding,
\* least significant byte first.
PackFloat(v) ==
    IF v = 0 THEN << 0, 0, 0, 0 >>
    ELSE LET a == IF v < 0 THEN -v ELSE v
             s == IF v < 0 THEN 1 ELSE 0
             fl == RoundToFloat(a)
             biased == fl.exp + 127
             mant == fl.sig - Pow2(23)
         IN  << mant % 256,
                (mant \div 256) % 256,
                ((biased % 2) * 128) + (mant \div 65536),
                (s * 128) + (biased \div 2) >>

\* struct.pack('<ff', x, y)
PackNode(node) == PackFloat(node[1]) \o PackFloat(node[2])

(***************************** the Track objects ****************************)
\* Track.__init__
Track(name, nodes) == [name |-> name, nodes |-> nodes]

RECURSIVE Digits(_)
\* The decimal digits of n >= 0, as code points.
Digits(n) == IF n < 10 THEN << 48 + n >> ELSE Digits(n \div 10) \o << 48 + (n % 10) >>

\* generate_straight of main.py, for an integer length >= 0:
\* f"{length:.0f} m Straight" and the two nodes (0, 0), (length, 0).
generate_straight(length) ==
    Track(Digits(length) \o << 32, 109, 32, 83, 116, 114, 97, 105, 103, 104, 116 >>,
          << << 0, 0 >>, << length, 0 >> >>)

Rep(c, n) == [k \in 1..n |-> c]

\* The names written: ASCII names of 0, 64, 65 and MaxNameLen bytes, and a
\* name of a 2-byte, a 4-byte and twenty 3-byte characters (66 bytes: the
\* cut at 64 bytes falls inside the last character).
Names ==
    << Rep(65, 0), Rep(65, 64), Rep(65, 65), Rep(65, MaxNameLen),
       << 233, 127937 >> \o Rep(8364, 20) >>

\* The coordinates written: (x, y) pairs of integers.
Points == << << 7, 0 >>, << -3, 16777217 >> >>

RECURSIVE ListsOfLen(_)
\* Every node list of n nodes over Points, as a sequence of lists.
ListsOfLen(n) ==
    IF n = 0 THEN << << >> >>
    ELSE LET shorter == ListsOfLen(n - 1)
         IN  [j \in 1..(Len(shorter) * Len(Points)) |->
                 Append(shorter[((j - 1) \div Len(Points)) + 1],
                        Points[((j - 1) % Len(Points)) + 1])]

\* Every node list of at most MaxNodes nodes over Points.
NodeLists == Concat([n \in 1..(MaxNodes + 1) |-> ListsOfLen(n - 1)])

\* A long node list: n nodes, the k-th (k mod 256, -(k mod 3)).
LongNodes(n) == [k \in 1..n |-> << k % 256, -(k % 3) >>]

\* The heap of Track objects a caller may hold; self is an index into it:
\* every name with every short node list, the track of main.py, a track
\* of 258 nodes (a count of two different bytes), one of MAX_NODES nodes
\* and one of MAX_NODES + 1.
Tracks ==
    [t \in 1..(Len(Names) * Len(NodeLists)) |->
        Track(Names[((t - 1) \div Len(NodeLists)) + 1],
              NodeLists[((t - 1) % Len(NodeLists)) + 1])]
        \o << generate_straight(100),
              Track(Rep(65, 1), LongNodes(258)),
              Track(Rep(65, 1), LongNodes(MAX_NODES)),
              Track(Rep(65, 1), LongNodes(MAX_NODES + 1)) >>

\* The destinations (file names) a caller may pass.
Dests == {"d1", "d2"}

\* A file the destination may hold before the first call: as long as a
\* file gets, of bytes the writer never produces at that place.
OldFile == [exists |-> TRUE, data |-> [k \in 1..MaxFileSize |-> 238]]
NoFile == [exists |-> FALSE, data |-> << >>]

\* What a call finds at its destination, for the record: no file, the file
\* a successful call left, a file of MaxFileSize bytes, or another file.
OldKind(file, ended) ==
    IF ~file.exists THEN "absent"
    ELSE IF ended = "ok" THEN "written"
    ELSE IF Len(file.data) = MaxFileSize THEN "full"
    ELSE "other"

(***************************** state ****************************************)
VARIABLES
    self,       \* the Track object written (an index into Tracks)
    filename,   \* the argument of the call in progress, or of the last one
    fs,         \* the file system: per destination, whether it exists, and its bytes
    old,        \* what the destination was when the call began: "absent", "written"
                \* (left by a successful call), "full" (MaxFileSize bytes), "other"
    f,          \* the file object of the with block: "none", "open", "closed"
    pc,         \* the statement of write_trk to run next, "idle" between calls
    i,          \* the nodes the for loop has written
    exc,        \* the exception in flight in the with block, or "none"
    last        \* per destination, how the last call on it ended ("none": not yet)

vars == << self, filename, fs, old, f, pc, i, exc, last >>

name == Tracks[self].name
nodes == Tracks[self].nodes

Init ==
    /\ self \in 1..Len(Tracks)
    /\ filename = "d1"
    /\ fs \in [Dests -> {NoFile, OldFile}]
    /\ old = OldKind(fs[filename], "none")
    /\ f = "none"
    /\ pc = "idle"
    /\ i = 0
    /\ exc = "none"
    /\ last = [d \in Dests |-> "none"]

(***************************** write_trk ************************************)
\* track.write_trk(d): the caller passes a destination.
Call(d) ==
    /\ pc = "idle"
    /\ filename' = d
    /\ old' = OldKind(fs[d], last[d])
    /\ f' = "none"
    /\ i' = 0
    /\ exc' = "none"
    /\ last' = [last EXCEPT ![d] = "none"]
    /\ pc' = "validate"
    /\ UNCHANGED << self, fs >>

TooManyNodesOffByOne(n) == n >= MAX_NODES
TooManyNodesNever(n) == FALSE
\* len(self.nodes) > MAX_NODES
TooManyNodes(n) == n > MAX_NODES

\* if len(self.nodes) > MAX_NODES: raise ValueError(...)
Validate ==
    /\ pc = "validate"
    /\ IF TooManyNodes(Len(nodes))
       THEN /\ pc' = "idle"
            /\ last' = [last EXCEPT ![filename] = "ValueError"]
       ELSE /\ pc' = "open"
            /\ UNCHANGED last
    /\ UNCHANGED << self, filename, fs, old, f, i, exc >>

OpenedAppend(prev) == [exists |-> TRUE, data |-> prev.data]
\* What open(filename, 'wb') makes of the destination: it creates the file
\* or truncates it.
Opened(prev) == [exists |-> TRUE, data |-> << >>]

\* with open(filename, 'wb') as f: the open succeeds, or raises OSError
\* and leaves the file system alone.
Open ==
    /\ pc = "open"
    /\ \/ /\ fs' = [fs EXCEPT ![filename] = Opened(fs[filename])]
          /\ f' = "open"
          /\ pc' = "header"
          /\ UNCHANGED last
       \/ /\ pc' = "idle"
          /\ last' = [last EXCEPT ![filename] = "OSError"]
          /\ UNCHANGED << fs, f >>
    /\ UNCHANGED << self, filename, old, i, exc >>

\* The lengths a failing write of data may leave behind, with room bytes
\* left for the file: at most MaxPartial of them, or all that fit when the
\* data does not.
FailCuts(data, room) ==
    {k \in 0..Min(Len(data) - 1, room) : k <= MaxPartial \/ k = room}

\* f.write(data), then the statement at next with ni nodes written: all of
\* data reaches the file; or the write raises OSError with a part of it
\* written, and control leaves the with block.
Write(data, next, ni) ==
    LET cur == fs[filename].data
        room == MaxFileSize - Len(cur)
    IN  /\ f = "open"
        /\ \/ /\ Len(data) <= room
              /\ fs' = [fs EXCEPT ![filename].data = cur \o data]
              /\ pc' = next
              /\ i' = ni
              /\ UNCHANGED exc
           \/ /\ \E k \in FailCuts(data, room) :
                    fs' = [fs EXCEPT ![filename].data = cur \o SubSeq(data, 1, k)]
              /\ pc' = "exit"
              /\ exc' = "OSError"
              /\ UNCHANGED i
        /\ UNCHANGED << self, filename, old, f, last >>

BuildHeaderNoCut(nm) ==
    LET h0 == Zeros(HeaderSize)
        h1 == SliceAssign(h0, 0, 4, << 84, 82, 75, 70 >>)
        h2 == SliceAssign(h1, 4, 8, ToBytesLE(0, 4))
        h3 == SliceAssign(h2, 8, 12, ToBytesLE(1, 4))
        name_bytes == EncodeUtf8(nm)
    IN  SliceAssign(h3, 12, 12 + Len(name_bytes), name_bytes)
BuildHeaderVersionsSwapped(nm) ==
    LET h0 == Zeros(HeaderSize)
        h1 == SliceAssign(h0, 0, 4, << 84, 82, 75, 70 >>)
        h2 == SliceAssign(h1, 4, 8, ToBytesLE(1, 4))
        h3 == SliceAssign(h2, 8, 12, ToBytesLE(0, 4))
        name_bytes == SliceTo(EncodeUtf8(nm), NameSize)
    IN  SliceAssign(h3, 12, 12 + Len(name_bytes), name_bytes)
\* The header of a track named nm: bytearray(128), then the slice
\* assignments of the magic b'TRKF', the two versions and the name.
BuildHeader(nm) ==
    LET h0 == Zeros(HeaderSize)
        h1 == SliceAssign(h0, 0, 4, << 84, 82, 75, 70 >>)
        h2 == SliceAssign(h1, 4, 8, ToBytesLE(0, 4))
        h3 == SliceAssign(h2, 8, 12, ToBytesLE(1, 4))
        name_bytes == SliceTo(EncodeUtf8(nm), NameSize)
    IN  SliceAssign(h3, 12, 12 + Len(name_bytes), name_bytes)

\* header = ...; f.write(header)
WriteHeader ==
    /\ pc = "header"
    /\ Write(BuildHeader(name), "count", i)

CountBytesBigEndian(n) == << n \div 256, n % 256 >>
\* len(self.nodes).to_bytes(2, byteorder='little', signed=False)
CountBytes(n) == ToBytesLE(n, 2)

\* f.write(len(self.nodes).to_bytes(2, ...)); to_bytes raises OverflowError
\* for a count that does not fit.
WriteCount ==
    /\ pc = "count"
    /\ IF ToBytesFits(Len(nodes), 2)
       THEN Write(CountBytes(Len(nodes)), "nodes", i)
       ELSE /\ pc' = "exit"
            /\ exc' = "OverflowError"
            /\ UNCHANGED << self, filename, fs, old, f, i, last >>

NodeAtReversed(ns, k) == ns[Len(ns) - k]
\* for x, y in self.nodes: the node of iteration k = 0, 1, ...
NodeAt(ns, k) == ns[k + 1]

NodeBytesYX(node) == PackFloat(node[2]) \o PackFloat(node[1])
\* struct.pack('<ff', x, y)
NodeBytes(node) == PackNode(node)

\* for x, y in self.nodes: f.write(struct.pack('<ff', x, y)); after the
\* last node control leaves the with block.
WriteNode ==
    /\ pc = "nodes"
    /\ IF i < Len(nodes)
       THEN Write(NodeBytes(NodeAt(nodes, i)), "nodes", i + 1)
       ELSE /\ pc' = "exit"
            /\ UNCHANGED << self, filename, fs, old, f, i, exc, last >>

ExitHandleLeak(e) == IF e = "none" THEN "closed" ELSE "open"
\* The file object once the with block is left with e in flight: __exit__
\* closes it either way.
ExitHandle(e) == "closed"

\* The end of the with block: the file is closed, and write_trk returns
\* None or the exception in flight goes on to the caller.
WithExit ==
    /\ pc = "exit"
    /\ f' = ExitHandle(exc)
    /\ last' = [last EXCEPT ![filename] = IF exc = "none" THEN "ok" ELSE exc]
    /\ pc' = "idle"
    /\ UNCHANGED << self, filename, fs, old, i, exc >>

Next ==
    \/ \E d \in Dests : Call(d)
    \/ Validate
    \/ Open
    \/ WriteHeader
    \/ WriteCount
    \/ WriteNode
    \/ WithExit

Spec == Init /\ [][Next]_vars

(***************************** the claims ***********************************)
\* The node count of the track, the bytes of a destination, and the byte
\* at a 0-based offset.
N == Len(nodes)
File(d) == fs[d].data
ByteAt(d, off) == fs[d].data[off + 1]
Slice(d, first, lastOff) == SubSeq(fs[d].data, first + 1, lastOff + 1)

\* The last call on d returned normally, and no call on d began since.
Succeeded(d) == last[d] = "ok"

\* The header of the call in progress is in the file, or d holds a file a
\* successful call produced.
HeaderDone(d) == Succeeded(d) \/ (d = filename /\ pc \in {"count", "nodes"})

\* An unsigned little-endian integer of at most four bytes (below 2^31).
DecodeLE(b) ==
    LET at(k) == IF k <= Len(b) THEN b[k] ELSE 0
    IN  at(1) + (256 * at(2)) + (65536 * at(3)) + (16777216 * at(4))

\* The byte the TRK layout puts at a 0-based offset of the file of track
\* t: magic, versions 0 and 1, the name field of 64 bytes, 52 reserved
\* bytes, the count, then 8 bytes per node (x, then y).
LayoutByte(t, nameBytes, off) ==
    IF off < 4 THEN << 84, 82, 75, 70 >>[off + 1]
    ELSE IF off < 8 THEN 0
    ELSE IF off = 8 THEN 1
    ELSE IF off < 12 THEN 0
    ELSE IF off < 76
         THEN IF off - 12 < Len(nameBytes) THEN nameBytes[off - 11] ELSE 0
    ELSE IF off < 128 THEN 0
    ELSE IF off = 128 THEN Len(Tracks[t].nodes) % 256
    ELSE IF off = 129 THEN Len(Tracks[t].nodes) \div 256
    ELSE LET node == Tracks[t].nodes[((off - 130) \div 8) + 1]
             within == (off - 130) % 8
         IN  IF within < 4 THEN PackFloat(node[1])[within + 1]
             ELSE PackFloat(node[2])[within - 3]

\* The UTF-8 encoding of the name of each track.
NameBytes == [t \in 1..Len(Tracks) |-> EncodeUtf8(Tracks[t].name)]

\* The file of each track by the layout, as far as a file can get.
Layout ==
    [t \in 1..Len(Tracks) |->
        [k \in 1..Min(130 + (8 * Len(Tracks[t].nodes)), MaxFileSize) |->
            LayoutByte(t, NameBytes[t], k - 1)]]

\* C1: for a track of at most 65535 nodes and any name, a successful
\* write leaves a file of exactly 130 + 8*N bytes, and the header that was
\* written is exactly 128 bytes whatever the length of the name.
C1_FileSize ==
    N <= 65535 =>
        /\ \A d \in Dests :
              Succeeded(d) => fs[d].exists /\ Len(File(d)) = 130 + (8 * N)
        /\ pc = "count" => Len(File(filename)) = 128

\* C1's case: a written file of a track with nodes and a name longer than
\* the 64-byte field.
C1_Witness ==
    \E d \in Dests :
        /\ Succeeded(d)
        /\ N >= 2
        /\ Len(NameBytes[self]) > 64
        /\ Len(File(d)) = 130 + (8 * N)

\* C2: a track of more than 65535 nodes is refused with ValueError before
\* any I/O: no step of a call on it opens the file or changes the file
\* system (an absent destination stays absent, an existing one keeps
\* every byte), and no call on it ends otherwise than with ValueError.
C2_RejectedBeforeIO ==
    [][N > 65535 =>
          /\ fs' = fs
          /\ f' = "none"
          /\ pc' \in {"idle", "validate"}
          /\ \A d \in Dests : last'[d] \in {"none", "ValueError"}]_vars

\* C2's case: a refused call on a destination that exists, and one on a
\* destination that is absent.
C2_Witness ==
    /\ N > 65535
    /\ pc = "idle"
    /\ last["d1"] = "ValueError" /\ fs["d1"] = OldFile
    /\ last["d2"] = "ValueError" /\ fs["d2"] = NoFile

\* C3: every file a successful write produced starts with the magic "TRKF"
\* and the versions 0 and 1 as unsigned 32-bit little-endian integers.
C3_MagicAndVersions ==
    \A d \in Dests :
        Succeeded(d) =>
            /\ Slice(d, 0, 3) = << 84, 82, 75, 70 >>
            /\ DecodeLE(Slice(d, 4, 7)) = 0
            /\ DecodeLE(Slice(d, 8, 11)) = 1

\* C3's case: the written file of the track of main.py.
C3_Witness ==
    \E d \in Dests :
        /\ Succeeded(d)
        /\ Tracks[self] = generate_straight(100)
        /\ Slice(d, 0, 11) = << 84, 82, 75, 70, 0, 0, 0, 0, 1, 0, 0, 0 >>

\* C4: with L the length of the name's UTF-8 encoding, bytes 12 ..
\* 12+min(L,64)-1 of the header are the first min(L,64) bytes of the
\* encoding and every later byte up to 127 is zero.
C4_NameField ==
    \A d \in Dests :
        HeaderDone(d) =>
            LET enc == NameBytes[self]
                m == Min(Len(enc), 64)
            IN  /\ Len(File(d)) >= 128
                /\ \A off \in 12..127 :
                      ByteAt(d, off) = IF off < 12 + m THEN enc[off - 11] ELSE 0

\* C4's case: a written file of a name whose encoding is longer than the
\* whole rest of the header, and whose first 64 bytes fill the field.
C4_Witness ==
    \E d \in Dests :
        /\ Succeeded(d)
        /\ Len(NameBytes[self]) > 116
        /\ ByteAt(d, 75) = 65
        /\ ByteAt(d, 76) = 0

\* C5: a track of at most 65535 nodes is never refused for its count, and
\* once the count is written bytes 128-129 are N mod 256 and N div 256,
\* which decode to N.
C5_NodeCount ==
    N <= 65535 =>
        /\ \A d \in Dests : last[d] \notin {"ValueError", "OverflowError"}
        /\ \A d \in Dests :
              (Succeeded(d) \/ (d = filename /\ pc = "nodes")) =>
                  /\ ByteAt(d, 128) = N % 256
                  /\ ByteAt(d, 129) = N \div 256
                  /\ DecodeLE(Slice(d, 128, 129)) = N

\* C5's case: the count of a track of exactly 65535 nodes is in the file.
C5_Witness ==
    /\ N = 65535
    /\ pc = "nodes"
    /\ Slice(filename, 128, 129) = << 255, 255 >>

\* C6: a written file holds exactly N node records, the record of node i
\* (0-based) at offset 130 + 8*i: the encoding of its x in the first four
\* bytes and of its y in the last four; the track of main.py gives
\* (0, 0) at bytes 130-137 and (100, 0) at bytes 138-145.
C6_NodeOrder ==
    \A d \in Dests :
        Succeeded(d) =>
            /\ Len(File(d)) - 130 = 8 * N
            /\ \A idx \in 0..(N - 1) :
                  /\ Slice(d, 130 + (8 * idx), 133 + (8 * idx))
                        = PackFloat(nodes[idx + 1][1])
                  /\ Slice(d, 134 + (8 * idx), 137 + (8 * idx))
                        = PackFloat(nodes[idx + 1][2])
            /\ Tracks[self] = generate_straight(100) =>
                  /\ Slice(d, 130, 137) = << 0, 0, 0, 0, 0, 0, 0, 0 >>
                  /\ Slice(d, 138, 145) = << 0, 0, 200, 66, 0, 0, 0, 0 >>

\* C6's case: a written file of two different nodes, each with x # y.
C6_Witness ==
    \E d \in Dests :
        /\ Succeeded(d)
        /\ N = 2
        /\ nodes[1] = << -3, 16777217 >>
        /\ nodes[2] = << 7, 0 >>
        /\ Slice(d, 130, 145)
              = << 0, 0, 64, 192, 0, 0, 128, 75, 0, 0, 224, 64, 0, 0, 0, 0 >>

\* C7: the file object is opened only once validation has passed, is open
\* only while the with block runs, and is closed whenever write_trk has
\* returned or raised, whatever the step that failed.
C7_HandleScoped ==
    /\ pc \in {"validate", "open"} => f = "none"
    /\ f # "none" => N <= 65535
    /\ f = "open" => pc \in {"header", "count", "nodes", "exit"}
    /\ pc \in {"header", "count", "nodes", "exit"} => f = "open"
    /\ pc = "idle" => f # "open"

\* C7's case: a call that raised OSError from a node write, after a node
\* was written, has returned with the file closed.
C7_Witness ==
    /\ pc = "idle"
    /\ last[filename] = "OSError"
    /\ i >= 1
    /\ i < N
    /\ f = "closed"

\* C8: two destinations whose last calls both succeeded hold the same
\* bytes, whatever either held before.
C8_Deterministic ==
    \A d1, d2 \in Dests :
        Succeeded(d1) /\ Succeeded(d2) => fs[d1] = fs[d2]

\* C8's case: both destinations written, the later one over an old file
\* longer than the track's file, with nodes in the file.
C8_Witness ==
    /\ Succeeded("d1")
    /\ Succeeded("d2")
    /\ old = "full"
    /\ N >= 1
    /\ File("d1") = File("d2")

\* C9: after a successful write the destination exists and holds exactly
\* the file of the track by the layout, byte for byte and no byte more,
\* whatever it held before.
C9_Overwrites ==
    \A d \in Dests :
        Succeeded(d) =>
            /\ fs[d].exists
            /\ Len(File(d)) = 130 + (8 * N)
            /\ File(d) = Layout[self]

\* C9's case: a successful write over a longer file.
C9_Witness ==
    /\ Succeeded(filename)
    /\ pc = "idle"
    /\ old = "full"
    /\ MaxFileSize > Len(File(filename))
    /\ N >= 1

\* A successful write over the file an earlier write of the same track
\* left: the file is the same again.
C9_TwiceWitness ==
    /\ Succeeded(filename)
    /\ pc = "idle"
    /\ old = "written"
    /\ N >= 1

\* C10: from the open on, and after the call whether it returned or
\* raised, the destination holds a prefix of the file of the track; the
\* header, the count and the nodes arrive in this order, so the prefix
\* ends at a write boundary (0, 128, 130 + 8*i) or, after a failed write,
\* inside the write that follows it.
C10_PrefixInOrder ==
    f # "none" =>
        LET len == Len(File(filename))
        IN  /\ len <= 130 + (8 * N)
            /\ File(filename) = SubSeq(Layout[self], 1, len)
            /\ pc = "header" => len = 0
            /\ pc = "count" => len = 128
            /\ pc = "nodes" => len = 130 + (8 * i)
            /\ exc = "none" /\ pc \in {"exit", "idle"} => len = 130 + (8 * N)
            /\ exc = "OSError" =>
                  \/ len < 128
                  \/ 128 <= len /\ len < 130 /\ i = 0
                  \/ 130 + (8 * i) <= len /\ len < 138 + (8 * i) /\ i < N

\* C10's case: a call aborted by the write of the second node, one byte
\* of which reached the file.
C10_Witness ==
    /\ pc = "idle"
    /\ f = "closed"
    /\ exc = "OSError"
    /\ i = 1
    /\ Len(File(filename)) = 139

=============================================================================
